---------------------------- MODULE Spec2Model ----------------------------
(***************************************************************************)
(* The conversation/session controller of the FinancialAuditUI component   *)
(* (src/Frontend/src/App.jsx, the final variant, lines 536-898).           *)
(*                                                                         *)
(* React state is modelled by one variable per useState/useRef cell.  A    *)
(* handler is a closure over the values of the render that created it:     *)
(* handlers reached from the page (key, click, change) belong to the       *)
(* committed render and therefore read the current values; the callback    *)
(* handed to setTimeout by suggestedPrompt keeps the sendMessage of the    *)
(* render in which the quick action was clicked, with the values that      *)
(* render had.  Setters and the nextMessageId ref always act on the        *)
(* current cells.                                                          *)
(*                                                                         *)
(* JS null is the empty tuple and a non-null value v is <<v>>.             *)
(* Strings are TLA+ strings; the emoji of the source are written in ASCII. *)
(***************************************************************************)
EXTENDS Integers, Sequences, FiniteSets, TLC

VARIABLES
    messages,       \* useState([])      App.jsx:537
    inputValue,     \* useState('')      App.jsx:538
    csvFile,        \* useState(null)    App.jsx:539
    pdfFile,        \* useState(null)    App.jsx:540
    isLoading,      \* useState(false)   App.jsx:541
    activeTab,      \* useState('chat')  App.jsx:542
    sessionId,      \* useState(null)    App.jsx:543
    nextMessageId,  \* useRef(0)         App.jsx:546
    timers,         \* callbacks scheduled by setTimeout, oldest first
    inflight,       \* fetches whose outcome has not arrived, oldest first
    pickerOpen,     \* the file chooser opened by fileInputRef.current.click()
    elapsed,        \* events handled since the oldest pending timer was set
    issued,         \* requests issued since the page was loaded
    attached,       \* files accepted since the page was loaded
    consumed,       \* history: files a New-Audit request that succeeded carried
    last            \* history: the step that led to this state

vars == <<messages, inputValue, csvFile, pdfFile, isLoading, activeTab,
          sessionId, nextMessageId, timers, inflight, pickerOpen, elapsed, issued,
          attached, consumed, last>>

\* Bounds of the exploration.
MaxRequests == 2
MaxAttach == 1
MaxDuringDelay == 1
MaxUploads == 3
MaxRaceDelay == 2
MaxRaceRequests == 3

Null == <<>>
Some(v) == <<v>>
Val(o) == o[1]

-----------------------------------------------------------------------------
(* Strings *)

IsSpace(ch) == ch \in {" ", "\t", "\n"}

RECURSIVE TrimStart(_)
TrimStart(s) ==
    IF s = "" THEN ""
    ELSE IF IsSpace(SubSeq(s, 1, 1)) THEN TrimStart(SubSeq(s, 2, Len(s)))
    ELSE s

RECURSIVE TrimEnd(_)
TrimEnd(s) ==
    IF s = "" THEN ""
    ELSE IF IsSpace(SubSeq(s, Len(s), Len(s))) THEN TrimEnd(SubSeq(s, 1, Len(s) - 1))
    ELSE s

\* String.prototype.trim
Trim(s) == TrimEnd(TrimStart(s))

UpperLetters == "ABCDEFGHIJKLMNOPQRSTUVWXYZ"
LowerLetters == "abcdefghijklmnopqrstuvwxyz"

LowerChar(ch) ==
    IF \E i \in 1..Len(UpperLetters) : SubSeq(UpperLetters, i, i) = ch
    THEN LET i == CHOOSE j \in 1..Len(UpperLetters) : SubSeq(UpperLetters, j, j) = ch
         IN  SubSeq(LowerLetters, i, i)
    ELSE ch

RECURSIVE ToLowerCase(_)
ToLowerCase(s) ==
    IF s = "" THEN ""
    ELSE LowerChar(SubSeq(s, 1, 1)) \o ToLowerCase(SubSeq(s, 2, Len(s)))

\* fileName.split('.').pop(): the text after the last '.', the whole name
\* when it has none.
RECURSIVE LastPart(_)
LastPart(s) ==
    IF \E i \in 1..Len(s) : SubSeq(s, i, i) = "."
    THEN LET i == CHOOSE j \in 1..Len(s) : SubSeq(s, j, j) = "."
         IN  LastPart(SubSeq(s, i + 1, Len(s)))
    ELSE s

FileExtension(fileName) == ToLowerCase(LastPart(fileName))

-----------------------------------------------------------------------------
(* Files offered by the file chooser: name and byte size of a File. *)

MaxSize == 500 * 1024 * 1024

SmallSize == 10 * 1024

FileChoices ==
    { [name |-> "invoice.csv", size |-> SmallSize],
      [name |-> "Ledger.PDF",  size |-> MaxSize],
      [name |-> "notes.txt",   size |-> MaxSize + 1],
      [name |-> "huge.pdf",    size |-> MaxSize + 1] }

\* Texts the user types into the input field (onChange).
TypedTexts == {"  ", "any duplicates?"}

\* The prompt fields of the Quick Actions (App.jsx:850-853).
Prompts == {"Generate audit summary"}

SessionIds == {"s1"}

-----------------------------------------------------------------------------
(* Backend outcomes of a fetch.                                             *)
(* transport: fetch itself rejected (no response).  Otherwise status is the *)
(* HTTP status, parses says whether response.json() resolves, and body is   *)
(* the parsed JSON object, an absent field being Null.                      *)

Body(sid, response, initial, detail) ==
    [session_id |-> sid, response |-> response,
     initial_chat_response |-> initial, detail |-> detail]

NoBody == Body(Null, Null, Null, Null)

Outcome(transport, status, parses, body) ==
    [transport |-> transport, status |-> status, parses |-> parses, body |-> body]

AnalysisText == "## Summary"
ReplyText == "What would you like to know?"
AnswerText == "No duplicates found."
DetailText == "Session not found"

OkStatuses == {200}
ErrorStatuses == {404, 500}

Outcomes ==
    {Outcome(TRUE, 0, FALSE, NoBody)}
    \cup {Outcome(FALSE, st, TRUE, Body(Some(sid), Some(AnalysisText), Some(ReplyText), Null)) :
            st \in OkStatuses, sid \in SessionIds}
    \cup {Outcome(FALSE, st, TRUE, Body(Null, Some(AnswerText), Null, Null)) : st \in OkStatuses}
    \cup {Outcome(FALSE, 404, FALSE, NoBody)}
    \cup {Outcome(FALSE, st, TRUE, Body(Null, Null, Null, Some(DetailText))) : st \in ErrorStatuses}

\* Response.ok
Ok(o) == o.status >= 200 /\ o.status <= 299

\* error.message of the TypeError a rejected fetch throws, and of the
\* SyntaxError response.json() throws on a body that is not JSON.
FetchErrorMessage == "Failed to fetch"
JsonErrorMessage == "Unexpected token < in JSON at position 0"

ErrorMarker == "(x) Error: "
AuditFallback == "Audit failed"
ChatFallback == "Chat session lost"

-----------------------------------------------------------------------------
(* The message log *)

Message(text, sender) == [text |-> text, sender |-> sender]

\* addMessage applied to each item of items in turn: the entries appended,
\* with the ids the nextMessageId ref hands out.
Appended(items) ==
    [i \in 1..Len(items) |->
        [text |-> items[i].text, sender |-> items[i].sender, id |-> nextMessageId + i - 1]]

\* addMessage that reads the counter without advancing it.
addMessage_NoIncrement(items) ==
    /\ messages' = messages \o Appended(items)
    /\ UNCHANGED nextMessageId

\* addMessage that puts the new entries in front of the log.
addMessage_Prepend(items) ==
    /\ messages' = Appended(items) \o messages
    /\ nextMessageId' = nextMessageId + Len(items)

addMessage(items) ==
    /\ messages' = messages \o Appended(items)
    /\ nextMessageId' = nextMessageId + Len(items)

-----------------------------------------------------------------------------
(* Closures and requests *)

\* The state values a handler created by the current render closes over.
Closure ==
    [inputValue |-> inputValue, isLoading |-> isLoading, csvFile |-> csvFile,
     pdfFile |-> pdfFile, sessionId |-> sessionId]

\* const isNewAudit = csvFile || pdfFile || !sessionId
isNewAudit(c) == c.csvFile # Null \/ c.pdfFile # Null \/ c.sessionId = Null

\* The fetch sendMessage issues: the multipart form posted to /audit, or the
\* JSON message posted to /chat/<sessionId>.
Request(c) ==
    IF isNewAudit(c)
    THEN [kind |-> "audit", message |-> c.inputValue, csv_file |-> c.csvFile,
          pdf_file |-> c.pdfFile, session |-> Null]
    ELSE [kind |-> "chat", message |-> c.inputValue, csv_file |-> Null,
          pdf_file |-> Null, session |-> c.sessionId]

\* SendIgnored without the trim.
SendIgnored_NoTrim(c) == c.inputValue = "" \/ c.isLoading

\* if (inputValue.trim() === '' || isLoading) return;
SendIgnored(c) == Trim(c.inputValue) = "" \/ c.isLoading

-----------------------------------------------------------------------------
(* The continuation of sendMessage after its fetch: what the try block did  *)
(* before it completed or threw.                                            *)

Effect(setSession, session, added, clearFiles, thrown) ==
    [setSession |-> setSession, session |-> session, added |-> added,
     clearFiles |-> clearFiles, thrown |-> thrown]

Thrown(msg) == Effect(FALSE, Null, <<>>, FALSE, Some(msg))

\* errorData.detail || fallback
DetailOr(body, fallback) == IF body.detail # Null THEN Val(body.detail) ELSE fallback

\* AuditSuccess with its two addMessage calls in the other order.
AuditSuccess_ReplyFirst(data) ==
    IF data.session_id # Null
    THEN Effect(TRUE, data.session_id,
                <<Message(Val(data.initial_chat_response), "ai"),
                  Message(Val(data.response), "ai")>>,
                TRUE, Null)
    ELSE Effect(FALSE, Null, <<Message(Val(data.response), "ai")>>, FALSE, Null)

AuditSuccess(data) ==
    IF data.session_id # Null
    THEN Effect(TRUE, data.session_id,
                <<Message(Val(data.response), "ai"),
                  Message(Val(data.initial_chat_response), "ai")>>,
                TRUE, Null)
    ELSE Effect(FALSE, Null, <<Message(Val(data.response), "ai")>>, FALSE, Null)

\* AuditTry that empties the upload slots when the backend rejects the audit.
AuditTry_DropsFilesOnError(o) ==
    IF o.transport THEN Thrown(FetchErrorMessage)
    ELSE IF ~Ok(o)
         THEN IF ~o.parses THEN Thrown(JsonErrorMessage)
              ELSE Effect(FALSE, Null, <<>>, TRUE, Some(DetailOr(o.body, AuditFallback)))
    ELSE IF ~o.parses THEN Thrown(JsonErrorMessage)
    ELSE AuditSuccess(o.body)

AuditTry(o) ==
    IF o.transport THEN Thrown(FetchErrorMessage)
    ELSE IF ~Ok(o)
         THEN IF ~o.parses THEN Thrown(JsonErrorMessage)
              ELSE Thrown(DetailOr(o.body, AuditFallback))
    ELSE IF ~o.parses THEN Thrown(JsonErrorMessage)
    ELSE AuditSuccess(o.body)

\* ChatFailure that resets the session on every non-success status.
ChatFailure_AnyStatus(o) ==
    IF ~o.parses THEN Thrown(JsonErrorMessage)
    ELSE Effect(TRUE, Null, <<>>, FALSE,
                Some(DetailOr(o.body, ChatFallback)))

ChatFailure(o) ==
    IF ~o.parses THEN Thrown(JsonErrorMessage)
    ELSE Effect(o.status = 404, Null, <<>>, FALSE,
                Some(DetailOr(o.body, ChatFallback)))

\* ChatTry that gives the session up when the fetch itself fails.
ChatTry_ResetsOnTransport(o) ==
    IF o.transport THEN Effect(TRUE, Null, <<>>, FALSE, Some(FetchErrorMessage))
    ELSE IF ~Ok(o) THEN ChatFailure(o)
    ELSE IF ~o.parses THEN Thrown(JsonErrorMessage)
    ELSE Effect(FALSE, Null, <<Message(Val(o.body.response), "ai")>>, FALSE, Null)

\* ChatTry that adopts a session id found in a Follow-up response.
ChatTry_AdoptsSession(o) ==
    IF o.transport THEN Thrown(FetchErrorMessage)
    ELSE IF ~Ok(o) THEN ChatFailure(o)
    ELSE IF ~o.parses THEN Thrown(JsonErrorMessage)
    ELSE Effect(o.body.session_id # Null, o.body.session_id,
                <<Message(Val(o.body.response), "ai")>>, FALSE, Null)

\* ChatTry whose success path also empties the upload slots.
ChatTry_ClearsFiles(o) ==
    IF o.transport THEN Thrown(FetchErrorMessage)
    ELSE IF ~Ok(o) THEN ChatFailure(o)
    ELSE IF ~o.parses THEN Thrown(JsonErrorMessage)
    ELSE Effect(FALSE, Null, <<Message(Val(o.body.response), "ai")>>, TRUE, Null)

ChatTry(o) ==
    IF o.transport THEN Thrown(FetchErrorMessage)
    ELSE IF ~Ok(o) THEN ChatFailure(o)
    ELSE IF ~o.parses THEN Thrown(JsonErrorMessage)
    ELSE Effect(FALSE, Null, <<Message(Val(o.body.response), "ai")>>, FALSE, Null)

\* A catch block that swallows the error.
Catch_Swallow(e) == e

\* catch (error) { addMessage(`(x) Error: ${error.message}`, 'system') }
Catch(e) ==
    IF e.thrown # Null
    THEN [e EXCEPT !.added = e.added \o <<Message(ErrorMarker \o Val(e.thrown), "system")>>]
    ELSE e

Reconcile(r, o) == Catch(IF r.kind = "audit" THEN AuditTry(o) ELSE ChatTry(o))

-----------------------------------------------------------------------------
(* History: the step taken and the values it started from *)

Pre == [sessionId |-> sessionId]

Step(op, result, req, out, file) ==
    [op |-> op, result |-> result, req |-> req, out |-> out, file |-> file, pre |-> Pre]

-----------------------------------------------------------------------------
(* File validation of handleFileUpload *)

UploadedPrefix == "[file] Uploaded: "
ProcessingNotice == "[...] Processing document... Analysis will appear in the results panel."

\* Validate with the size test file.size >= maxSize.
Validate_AtLeast(file) ==
    LET fileExtension == FileExtension(file.name)
    IN  IF fileExtension \notin {"csv", "pdf"} THEN "invalidType"
        ELSE IF file.size >= MaxSize THEN "tooLarge"
        ELSE fileExtension

\* "csv" or "pdf" for an accepted file, else the reason of the rejection.
Validate(file) ==
    LET fileExtension == FileExtension(file.name)
    IN  IF fileExtension \notin {"csv", "pdf"} THEN "invalidType"
        ELSE IF file.size > MaxSize THEN "tooLarge"
        ELSE fileExtension

-----------------------------------------------------------------------------
(* Initial state: the first render *)

Init ==
    /\ messages = <<>>
    /\ inputValue = ""
    /\ csvFile = Null
    /\ pdfFile = Null
    /\ isLoading = FALSE
    /\ activeTab = "chat"
    /\ sessionId = Null
    /\ nextMessageId = 0
    /\ timers = <<>>
    /\ inflight = <<>>
    /\ pickerOpen = FALSE
    /\ elapsed = 0
    /\ issued = 0
    /\ attached = 0
    /\ consumed = {}
    /\ last = Step("init", "", Null, Null, Null)

-----------------------------------------------------------------------------
(* Handlers *)

\* The page takes no key or click while the file chooser is open.
PageIdle == ~pickerOpen

\* onChange of the text input (disabled while isLoading).
TypeInput(text) ==
    /\ PageIdle /\ ~isLoading
    /\ text # inputValue
    /\ inputValue' = text
    /\ last' = Step("ui", "", Null, Null, Null)
    /\ UNCHANGED <<messages, csvFile, pdfFile, isLoading, activeTab, sessionId,
                   nextMessageId, timers, inflight, pickerOpen>>

\* sendMessage of the render with values c, up to its await of fetch.
sendMessage(c, op) ==
    /\ IF SendIgnored(c)
       THEN /\ last' = Step(op, "ignored", Null, Null, Null)
            /\ UNCHANGED <<messages, nextMessageId, inputValue, isLoading, inflight>>
       ELSE /\ addMessage(<<Message(c.inputValue, "user")>>)
            /\ inputValue' = ""
            /\ isLoading' = TRUE
            /\ inflight' = Append(inflight, Request(c))
            /\ last' = Step(op, "sent", Some(Request(c)), Null, Null)
    /\ UNCHANGED <<csvFile, pdfFile, activeTab, sessionId, pickerOpen>>

\* Enter in the text input (handleKeyDown) or a click on the send button;
\* both controls are disabled while isLoading.
DirectSend ==
    /\ PageIdle /\ ~isLoading
    /\ sendMessage(Closure, "send")
    /\ UNCHANGED timers

\* A click on a Quick Action (disabled while isLoading): suggestedPrompt.
suggestedPrompt(prompt) ==
    /\ PageIdle /\ ~isLoading
    /\ inputValue' = prompt
    /\ activeTab' = "chat"
    /\ timers' = Append(timers, Closure)
    /\ last' = Step("quick", "", Null, Null, Null)
    /\ UNCHANGED <<messages, csvFile, pdfFile, isLoading, sessionId, nextMessageId,
                   inflight, pickerOpen>>

\* The callback of setTimeout(() => sendMessage(), 100) runs.
TimerFires ==
    /\ timers # <<>>
    /\ sendMessage(Head(timers), "timer")
    /\ timers' = Tail(timers)

\* A click on the upload button (disabled while isLoading) opens the chooser.
OpenPicker ==
    /\ PageIdle /\ ~isLoading
    /\ pickerOpen' = TRUE
    /\ last' = Step("ui", "", Null, Null, Null)
    /\ UNCHANGED <<messages, inputValue, csvFile, pdfFile, isLoading, activeTab,
                   sessionId, nextMessageId, timers, inflight>>

\* The chooser is dismissed: if (!file) return.
CancelPicker ==
    /\ pickerOpen
    /\ pickerOpen' = FALSE
    /\ last' = Step("ui", "", Null, Null, Null)
    /\ UNCHANGED <<messages, inputValue, csvFile, pdfFile, isLoading, activeTab,
                   sessionId, nextMessageId, timers, inflight>>

\* StageFile without setSessionId(null).
StageFile_KeepSession(file) ==
    /\ UNCHANGED sessionId
    /\ IF Validate(file) = "csv"
       THEN csvFile' = Some(file) /\ UNCHANGED pdfFile
       ELSE pdfFile' = Some(file) /\ UNCHANGED csvFile

\* StageFile that empties the slot of the other kind.
StageFile_ClearsOther(file) ==
    /\ sessionId' = Null
    /\ IF Validate(file) = "csv"
       THEN csvFile' = Some(file) /\ pdfFile' = Null
       ELSE pdfFile' = Some(file) /\ csvFile' = Null

\* An accepted file is staged (App.jsx:578-584).
StageFile(file) ==
    /\ sessionId' = Null
    /\ IF Validate(file) = "csv"
       THEN csvFile' = Some(file) /\ UNCHANGED pdfFile
       ELSE pdfFile' = Some(file) /\ UNCHANGED csvFile

\* handleFileUpload with its two addMessage calls in the other order.
handleFileUpload_NoticeFirst(file) ==
    /\ pickerOpen
    /\ pickerOpen' = FALSE
    /\ last' = Step("attach", Validate(file), Null, Null, Some(file))
    /\ IF Validate(file) \in {"invalidType", "tooLarge"}
       THEN UNCHANGED <<messages, nextMessageId, csvFile, pdfFile, sessionId>>
       ELSE /\ StageFile(file)
            /\ addMessage(<<Message(ProcessingNotice, "system"),
                            Message(UploadedPrefix \o file.name, "user")>>)
    /\ UNCHANGED <<inputValue, isLoading, activeTab, timers, inflight>>

\* handleFileUpload that resets the session before it validates the file.
handleFileUpload_ResetsFirst(file) ==
    /\ pickerOpen
    /\ pickerOpen' = FALSE
    /\ last' = Step("attach", Validate(file), Null, Null, Some(file))
    /\ IF Validate(file) \in {"invalidType", "tooLarge"}
       THEN /\ sessionId' = Null
            /\ UNCHANGED <<messages, nextMessageId, csvFile, pdfFile>>
       ELSE /\ StageFile(file)
            /\ addMessage(<<Message(UploadedPrefix \o file.name, "user"),
                            Message(ProcessingNotice, "system")>>)
    /\ UNCHANGED <<inputValue, isLoading, activeTab, timers, inflight>>

\* onChange of the file input with the chosen file.
handleFileUpload(file) ==
    /\ pickerOpen
    /\ pickerOpen' = FALSE
    /\ last' = Step("attach", Validate(file), Null, Null, Some(file))
    /\ IF Validate(file) \in {"invalidType", "tooLarge"}
       THEN UNCHANGED <<messages, nextMessageId, csvFile, pdfFile, sessionId>>
       ELSE /\ StageFile(file)
            /\ addMessage(<<Message(UploadedPrefix \o file.name, "user"),
                            Message(ProcessingNotice, "system")>>)
    /\ UNCHANGED <<inputValue, isLoading, activeTab, timers, inflight>>

\* RemoveCsv that also drops the upload messages: the log and the id
\* counter are reset.
RemoveCsv_ResetsLog ==
    /\ PageIdle
    /\ csvFile # Null
    /\ csvFile' = Null
    /\ messages' = <<>>
    /\ nextMessageId' = 0
    /\ last' = Step("remove", "csv", Null, Null, Null)
    /\ UNCHANGED <<inputValue, pdfFile, isLoading, activeTab, sessionId,
                   timers, inflight, pickerOpen>>

\* The remove button of a staged file: setCsvFile(null) / setPdfFile(null).
RemoveCsv ==
    /\ PageIdle
    /\ csvFile # Null
    /\ csvFile' = Null
    /\ last' = Step("remove", "csv", Null, Null, Null)
    /\ UNCHANGED <<messages, inputValue, pdfFile, isLoading, activeTab, sessionId,
                   nextMessageId, timers, inflight, pickerOpen>>

RemovePdf ==
    /\ PageIdle
    /\ pdfFile # Null
    /\ pdfFile' = Null
    /\ last' = Step("remove", "pdf", Null, Null, Null)
    /\ UNCHANGED <<messages, inputValue, csvFile, isLoading, activeTab, sessionId,
                   nextMessageId, timers, inflight, pickerOpen>>

\* clearChat without nextMessageId.current = 0.
clearChat_KeepCounter ==
    /\ PageIdle
    /\ messages # <<>>
    /\ messages' = <<>>
    /\ csvFile' = Null
    /\ pdfFile' = Null
    /\ sessionId' = Null
    /\ UNCHANGED nextMessageId
    /\ last' = Step("clear", "", Null, Null, Null)
    /\ UNCHANGED <<inputValue, isLoading, activeTab, timers, inflight, pickerOpen>>

\* The Clear Chat button, rendered while the log is not empty.
clearChat ==
    /\ PageIdle
    /\ messages # <<>>
    /\ messages' = <<>>
    /\ csvFile' = Null
    /\ pdfFile' = Null
    /\ sessionId' = Null
    /\ nextMessageId' = 0
    /\ last' = Step("clear", "", Null, Null, Null)
    /\ UNCHANGED <<inputValue, isLoading, activeTab, timers, inflight, pickerOpen>>

Without(seq, i) == SubSeq(seq, 1, i - 1) \o SubSeq(seq, i + 1, Len(seq))

\* Response whose finally block does not run.
Response_NoFinally(i, o) ==
    LET r == inflight[i]
        e == Reconcile(r, o)
    IN  /\ sessionId' = IF e.setSession THEN e.session ELSE sessionId
        /\ csvFile' = IF e.clearFiles THEN Null ELSE csvFile
        /\ pdfFile' = IF e.clearFiles THEN Null ELSE pdfFile
        /\ addMessage(e.added)
        /\ UNCHANGED isLoading
        /\ inflight' = Without(inflight, i)
        /\ last' = Step("response", "", Some(r), Some(o), Null)
        /\ UNCHANGED <<inputValue, activeTab, timers, pickerOpen>>

\* The fetch of the i-th outstanding request settles with outcome o and the
\* rest of that sendMessage runs: try, catch, finally.
Response(i, o) ==
    LET r == inflight[i]
        e == Reconcile(r, o)
    IN  /\ sessionId' = IF e.setSession THEN e.session ELSE sessionId
        /\ csvFile' = IF e.clearFiles THEN Null ELSE csvFile
        /\ pdfFile' = IF e.clearFiles THEN Null ELSE pdfFile
        /\ addMessage(e.added)
        /\ isLoading' = FALSE
        /\ inflight' = Without(inflight, i)
        /\ last' = Step("response", "", Some(r), Some(o), Null)
        /\ UNCHANGED <<inputValue, activeTab, timers, pickerOpen>>

-----------------------------------------------------------------------------
(* Exploration bounds *)

\* A timer set for 100 ms lets only a few other events be handled before it
\* runs: every event handled while a timer is pending is counted.
DuringDelay ==
    /\ timers # <<>> => elapsed < MaxDuringDelay
    /\ elapsed' = IF timers # <<>> /\ timers' # <<>> THEN elapsed + 1 ELSE 0

AfterTimer == elapsed' = IF timers' = <<>> THEN 0 ELSE elapsed

\* At most MaxRequests requests are issued and MaxAttach files accepted.
Budget ==
    /\ issued' = IF last'.result = "sent" THEN issued + 1 ELSE issued
    /\ attached' = IF last'.op = "attach" /\ last'.result \in {"csv", "pdf"}
                   THEN attached + 1 ELSE attached
    /\ issued' <= MaxRequests
    /\ attached' <= MaxAttach

\* The files a request carries.
Carried(r) == {Val(f) : f \in {r.csv_file, r.pdf_file} \ {Null}}

\* A file counts as consumed from the step that reconciles a successful
\* New-Audit request carrying it until it is attached again.
Consumption ==
    consumed' =
        IF last'.op = "response" /\ Val(last'.req).kind = "audit"
             /\ ~Val(last'.out).transport /\ Ok(Val(last'.out)) /\ Val(last'.out).parses
        THEN consumed \cup Carried(Val(last'.req))
        ELSE IF last'.op = "attach" /\ last'.result \in {"csv", "pdf"}
        THEN consumed \ {Val(last'.file)}
        ELSE consumed

Event ==
    \/ \E text \in TypedTexts : TypeInput(text)
    \/ DirectSend
    \/ \E prompt \in Prompts : suggestedPrompt(prompt)
    \/ OpenPicker
    \/ CancelPicker
    \/ \E file \in FileChoices : handleFileUpload(file)
    \/ RemoveCsv
    \/ RemovePdf
    \/ clearChat
    \/ \E i \in 1..Len(inflight) : \E o \in Outcomes : Response(i, o)

Next ==
    \/ Event /\ DuringDelay /\ Budget /\ Consumption
    \/ TimerFires /\ AfterTimer /\ Budget /\ Consumption

Spec == Init /\ [][Next]_vars

-----------------------------------------------------------------------------
(* The upload staging on its own: the file chooser offers every combination *)
(* of the names and sizes below, and no message is sent.                    *)

UploadNames ==
    {"invoice.csv", "DATA.CSV", "Ledger.PDF", "a.b.pdf", "notes.txt",
     "report.csv.txt", "csv", "PDF"}

UploadSizes == {SmallSize, MaxSize, MaxSize + 1}

UploadChoices == {[name |-> n, size |-> sz] : n \in UploadNames, sz \in UploadSizes}

\* At most MaxUploads files are accepted.
UploadBudget ==
    /\ attached' = IF last'.op = "attach" /\ last'.result \in {"csv", "pdf"}
                   THEN attached + 1 ELSE attached
    /\ attached' <= MaxUploads
    /\ UNCHANGED issued

UploadEvent ==
    \/ OpenPicker
    \/ CancelPicker
    \/ \E file \in UploadChoices : handleFileUpload(file)
    \/ RemoveCsv
    \/ RemovePdf
    \/ clearChat

UploadNext == UploadEvent /\ DuringDelay /\ UploadBudget /\ Consumption

UploadSpec == Init /\ [][UploadNext]_vars

-----------------------------------------------------------------------------
(* The conversation on its own: no file is chosen, and up to MaxRaceDelay   *)
(* events are handled while a delayed send is pending, so that a request    *)
(* can be sent and answered between the click on a quick action and its     *)
(* delayed send.                                                            *)

RaceDelay ==
    /\ timers # <<>> => elapsed < MaxRaceDelay
    /\ elapsed' = IF timers # <<>> /\ timers' # <<>> THEN elapsed + 1 ELSE 0

\* At most MaxRaceRequests requests are issued.
RaceBudget ==
    /\ issued' = IF last'.result = "sent" THEN issued + 1 ELSE issued
    /\ issued' <= MaxRaceRequests
    /\ UNCHANGED attached

RaceEvent ==
    \/ \E text \in TypedTexts : TypeInput(text)
    \/ DirectSend
    \/ \E prompt \in Prompts : suggestedPrompt(prompt)
    \/ clearChat
    \/ \E i \in 1..Len(inflight) : \E o \in Outcomes : Response(i, o)

RaceNext ==
    \/ RaceEvent /\ RaceDelay /\ RaceBudget /\ Consumption
    \/ TimerFires /\ AfterTimer /\ RaceBudget /\ Consumption

RaceSpec == Init /\ [][RaceNext]_vars

-----------------------------------------------------------------------------
(* Properties *)

\* The step that led to the state described by l issued a request.
Sent(l) == l.op \in {"send", "timer"} /\ l.result = "sent"

\* The step reconciled the outcome of a request of the given kind.
Reconciled(l, kind) == l.op = "response" /\ Val(l.req).kind = kind

\* The outcome carries a success status and a JSON body.
Succeeded(o) == ~o.transport /\ Ok(o) /\ o.parses

\* The outcome is a non-success status or a transport failure.
Failed(o) == o.transport \/ ~Ok(o)

StartsWith(text, prefix) ==
    Len(text) >= Len(prefix) /\ SubSeq(text, 1, Len(prefix)) = prefix

\* The log entries a step appended, when the step only appended.
Added == SubSeq(messages', Len(messages) + 1, Len(messages'))

OnlyAppends ==
    /\ Len(messages') >= Len(messages)
    /\ SubSeq(messages', 1, Len(messages)) = messages

\* C1: every request a send issues (Enter, send button or the delayed send
\* of a quick action) is shaped by the upload slots and the Session as they
\* are when that send runs: New-Audit if a slot is occupied or the Session
\* is Unset, otherwise a Follow-up to the current session id.
C1_RoutesOnCurrentState ==
    [][Sent(last') =>
         /\ Val(last'.req).kind = "audit"
              <=> (csvFile # Null \/ pdfFile # Null \/ sessionId = Null)
         /\ Val(last'.req).kind = "chat" => Val(last'.req).session = sessionId]_vars

\* C2: at most one backend request is outstanding in every reachable state.
C2_OneOutstanding == Len(inflight) <= 1

\* C3: reconciling a successful New-Audit response that carries a session id
\* leaves Session = Active(that id) and both upload slots empty, and appends
\* exactly two assistant messages: the analysis, then the initial reply.
C3_StatefulAuditSuccess ==
    [][(Reconciled(last', "audit") /\ Succeeded(Val(last'.out))
          /\ Val(last'.out).body.session_id # Null) =>
         /\ sessionId' = Val(last'.out).body.session_id
         /\ csvFile' = Null
         /\ pdfFile' = Null
         /\ OnlyAppends
         /\ Added = <<[text |-> Val(Val(last'.out).body.response), sender |-> "ai",
                       id |-> nextMessageId],
                      [text |-> Val(Val(last'.out).body.initial_chat_response),
                       sender |-> "ai", id |-> nextMessageId + 1]>>]_vars

\* A stateful success was reconciled for a request that carried a staged CSV.
C3_Witness ==
    /\ Reconciled(last, "audit")
    /\ Succeeded(Val(last.out))
    /\ Val(last.out).body.session_id # Null
    /\ Val(last.req).csv_file # Null
    /\ sessionId = Val(last.out).body.session_id
    /\ csvFile = Null

\* C4: a Follow-up answered with status 404, whatever its body, leaves the
\* Session Unset (so that the next send with no staged files is a New-Audit
\* request) and appends exactly one system message.
C4_NotFoundResetsSession ==
    [][(Reconciled(last', "chat") /\ ~Val(last'.out).transport
          /\ Val(last'.out).status = 404) =>
         /\ sessionId' = Null
         /\ OnlyAppends
         /\ Len(Added) = 1
         /\ Added[1].sender = "system"]_vars

\* C5: an accepted attach leaves the Session Unset, whether or not a request
\* is outstanding.
C5_AttachResetsSession ==
    (last.op = "attach" /\ last.result \in {"csv", "pdf"}) => sessionId = Null

\* A file was accepted while the Session was Active and a request outstanding.
C5_Witness ==
    /\ last.op = "attach"
    /\ last.result \in {"csv", "pdf"}
    /\ last.pre.sessionId # Null
    /\ inflight # <<>>
    /\ sessionId = Null

\* The outcome is a success whose body carries no session id.
Stateless(o) == Succeeded(o) /\ o.body.session_id = Null

\* C6: reconciling a successful New-Audit response that carries no session
\* id leaves the Session Unset and appends exactly one assistant message,
\* the returned text.
C6_StatelessAuditSuccess ==
    [][(Reconciled(last', "audit") /\ Stateless(Val(last'.out))) =>
         /\ sessionId' = Null
         /\ OnlyAppends
         /\ Added = <<[text |-> Val(Val(last'.out).body.response), sender |-> "ai",
                       id |-> nextMessageId]>>]_vars

\* C7: reconciling a successful New-Audit response that carries no session
\* id leaves both upload slots empty.
C7_StatelessClearsSlots ==
    [][(Reconciled(last', "audit") /\ Stateless(Val(last'.out))) =>
         (csvFile' = Null /\ pdfFile' = Null)]_vars

\* C8: reconciling the outcome of a request never removes a staged file that
\* the request does not carry (a file staged after the request was issued).
C8_LaterFileSurvives ==
    [][last'.op = "response" =>
         /\ (csvFile # Null /\ csvFile # Val(last'.req).csv_file) => csvFile' = csvFile
         /\ (pdfFile # Null /\ pdfFile # Val(last'.req).pdf_file) => pdfFile' = pdfFile]_vars

\* C9: right after clearChat the log is empty, the Session Unset, both slots
\* empty and the id counter 0, and the next message appended gets id 0.
C9_ClearResets ==
    [][/\ last'.op = "clear" =>
            /\ messages' = <<>>
            /\ sessionId' = Null
            /\ csvFile' = Null
            /\ pdfFile' = Null
            /\ nextMessageId' = 0
       /\ (last.op = "clear" /\ messages' # messages) => messages'[1].id = 0]_vars

\* The log was cleared while the Session was Active.
C9_Witness ==
    /\ last.op = "clear"
    /\ last.pre.sessionId # Null
    /\ messages = <<>>
    /\ sessionId = Null
    /\ nextMessageId = 0

\* C10: every failed request (non-success status or transport failure, of
\* either shape) appends exactly one system message that starts with the
\* error marker, and no assistant message.
C10_FailureLogged ==
    [][(last'.op = "response" /\ Failed(Val(last'.out))) =>
         /\ OnlyAppends
         /\ Len(Added) = 1
         /\ Added[1].sender = "system"
         /\ Added[1].id = nextMessageId
         /\ StartsWith(Added[1].text, ErrorMarker)]_vars

\* A Follow-up failed with a status whose body is not JSON, and the log ends
\* with the error entry.
C10_Witness ==
    /\ Reconciled(last, "chat")
    /\ Failed(Val(last.out))
    /\ ~Val(last.out).parses
    /\ messages # <<>>
    /\ messages[Len(messages)].sender = "system"
    /\ StartsWith(messages[Len(messages)].text, ErrorMarker)

\* The text a send reads as its message: the input of the committed render
\* for Enter and the send button, the input of the render that set the timer
\* for the delayed send.
MessageRead(l) == IF l.op = "timer" THEN Head(timers).inputValue ELSE inputValue

\* C11: the step that reconciles the outcome of a request (success, backend
\* error or transport failure) ends with the busy flag false, and a send
\* that runs while the busy flag is false and reads a non-empty message is
\* accepted: it issues exactly one request and sets the busy flag.
C11_IdleAfterOutcome ==
    [][/\ last'.op = "response" => isLoading' = FALSE
       /\ (last'.op \in {"send", "timer"} /\ ~isLoading
             /\ Trim(MessageRead(last')) # "") =>
            /\ last'.result = "sent"
            /\ inflight' = Append(inflight, Val(last'.req))
            /\ isLoading' = TRUE]_vars

\* A send was accepted right after a failure had been logged.
C11_Witness ==
    /\ last.op = "send"
    /\ last.result = "sent"
    /\ Len(messages) >= 3
    /\ messages[Len(messages) - 1].sender = "system"
    /\ StartsWith(messages[Len(messages) - 1].text, ErrorMarker)
    /\ Len(inflight) = 1
    /\ isLoading

\* The outcome is a non-success status whose body is not JSON.
Unparsable(o) == ~o.transport /\ ~Ok(o) /\ ~o.parses

\* The fixed generic text of a request shape.
Fallback(kind) == IF kind = "audit" THEN AuditFallback ELSE ChatFallback

\* C12: a non-success response whose body cannot be parsed is logged as one
\* system message whose text is the error marker followed by the generic
\* fallback text of the request shape (never the text of the parsing error),
\* and the rest of failure handling still runs: a Follow-up answered 404
\* leaves the Session Unset.
C12_FallbackOnParseFailure ==
    [][(last'.op = "response" /\ Unparsable(Val(last'.out))) =>
         /\ OnlyAppends
         /\ Added = <<[text |-> ErrorMarker \o Fallback(Val(last'.req).kind),
                       sender |-> "system", id |-> nextMessageId]>>
         /\ (Val(last'.req).kind = "chat" /\ Val(last'.out).status = 404)
              => sessionId' = Null]_vars

\* C13: reconciling a successful Follow-up response appends exactly one
\* assistant message, the returned text, and leaves the Session and both
\* upload slots as they were just before.
C13_FollowUpSuccess ==
    [][(Reconciled(last', "chat") /\ Succeeded(Val(last'.out))) =>
         /\ sessionId' = sessionId
         /\ csvFile' = csvFile
         /\ pdfFile' = pdfFile
         /\ OnlyAppends
         /\ Added = <<[text |-> Val(Val(last'.out).body.response), sender |-> "ai",
                       id |-> nextMessageId]>>]_vars

\* A Follow-up succeeded while a file attached after it was sent is staged.
C13_Witness ==
    /\ Reconciled(last, "chat")
    /\ Succeeded(Val(last.out))
    /\ csvFile # Null
    /\ messages[Len(messages)].sender = "ai"
    /\ messages[Len(messages)].text = Val(Val(last.out).body.response)

\* C14: a request never carries a file that a New-Audit request which has
\* already succeeded (with or without a session id) carried, unless the file
\* was attached again in between.
C14_ConsumedOnce ==
    [][Sent(last') => Carried(Val(last'.req)) \cap consumed = {}]_vars

\* The name ends with the suffix, letter case ignored.
EndsWithIgnoreCase(name, suffix) ==
    /\ Len(name) >= Len(suffix)
    /\ ToLowerCase(SubSeq(name, Len(name) - Len(suffix) + 1, Len(name))) = suffix

\* C15: a file is accepted as csv only if its name ends in ".csv" and as pdf
\* only if its name ends in ".pdf", letter case ignored; every other name,
\* one without any "." included, is rejected as an invalid type.
C15_ExtensionMatchesKind ==
    last.op = "attach" =>
        /\ last.result = "csv" => EndsWithIgnoreCase(Val(last.file).name, ".csv")
        /\ last.result = "pdf" => EndsWithIgnoreCase(Val(last.file).name, ".pdf")
        /\ (~EndsWithIgnoreCase(Val(last.file).name, ".csv")
              /\ ~EndsWithIgnoreCase(Val(last.file).name, ".pdf"))
             => last.result = "invalidType"

\* C16: a file of valid type is rejected as too large exactly when its size
\* exceeds 500 MiB (a file of exactly 500 MiB is accepted, one byte more is
\* rejected), and every staged file has size <= 500 MiB.
C16_SizeLimit ==
    /\ (last.op = "attach" /\ last.result # "invalidType") =>
          (last.result = "tooLarge" <=> Val(last.file).size > 500 * 1024 * 1024)
    /\ csvFile # Null => Val(csvFile).size <= 500 * 1024 * 1024
    /\ pdfFile # Null => Val(pdfFile).size <= 500 * 1024 * 1024

\* A file of exactly 500 MiB was accepted and is staged.
C16_Witness ==
    /\ last.op = "attach"
    /\ Val(last.file).size = 500 * 1024 * 1024
    /\ last.result = "pdf"
    /\ pdfFile = last.file

\* C17: an accepted attach of a kind makes the slot of that kind hold the
\* new file, whatever it held before, and leaves the other slot unchanged;
\* each slot holds at most one file.
C17_AttachReplacesSameKind ==
    [][/\ (last'.op = "attach" /\ last'.result = "csv") =>
            (csvFile' = last'.file /\ pdfFile' = pdfFile)
       /\ (last'.op = "attach" /\ last'.result = "pdf") =>
            (pdfFile' = last'.file /\ csvFile' = csvFile)
       /\ Len(csvFile') <= 1
       /\ Len(pdfFile') <= 1]_vars

\* A second CSV was accepted after a first one and a PDF had been: the CSV
\* slot holds the second, the PDF slot still holds the PDF.
C17_Witness ==
    /\ last.op = "attach"
    /\ last.result = "csv"
    /\ Len(messages) = 6
    /\ messages[1].text = UploadedPrefix \o "invoice.csv"
    /\ messages[3].text = UploadedPrefix \o "Ledger.PDF"
    /\ messages[5].text = UploadedPrefix \o "DATA.CSV"
    /\ Val(csvFile).name = "DATA.CSV"
    /\ pdfFile # Null

\* C18: every accepted attach appends exactly two messages, first a user
\* message naming the uploaded file and then the system processing notice,
\* issues no backend request and leaves the busy flag as it was.
C18_AttachLogsTwo ==
    [][(last'.op = "attach" /\ last'.result \in {"csv", "pdf"}) =>
         /\ OnlyAppends
         /\ Added = <<[text |-> UploadedPrefix \o Val(last'.file).name,
                       sender |-> "user", id |-> nextMessageId],
                      [text |-> ProcessingNotice, sender |-> "system",
                       id |-> nextMessageId + 1]>>
         /\ inflight' = inflight
         /\ issued' = issued
         /\ isLoading' = isLoading]_vars

\* A file was accepted while a request was outstanding and the busy flag set.
C18_Witness ==
    /\ last.op = "attach"
    /\ last.result \in {"csv", "pdf"}
    /\ isLoading
    /\ Len(inflight) = 1
    /\ Len(messages) >= 3
    /\ messages[Len(messages) - 1].text = UploadedPrefix \o Val(last.file).name
    /\ messages[Len(messages)].text = ProcessingNotice

\* C19: removing a staged file empties its slot and leaves the Session, the
\* other slot, the log, the id counter, the busy flag and the outstanding
\* requests unchanged: an Unset Session stays Unset and an Active one Active.
C19_RemoveFrame ==
    [][last'.op = "remove" =>
         /\ last'.result = "csv" => (csvFile' = Null /\ pdfFile' = pdfFile)
         /\ last'.result = "pdf" => (pdfFile' = Null /\ csvFile' = csvFile)
         /\ sessionId' = sessionId
         /\ messages' = messages
         /\ nextMessageId' = nextMessageId
         /\ isLoading' = isLoading
         /\ inflight' = inflight]_vars

\* The only staged file was removed while the Session was Unset and a
\* request outstanding: the Session is still Unset, the log and the busy
\* flag are as they were.
C19_Witness ==
    /\ last.op = "remove"
    /\ last.result = "csv"
    /\ last.pre.sessionId = Null
    /\ sessionId = Null
    /\ csvFile = Null
    /\ pdfFile = Null
    /\ isLoading
    /\ Len(inflight) = 1
    /\ Len(messages) = 3
    /\ nextMessageId = 3

\* C20: the Session takes a session id it did not have (Unset to Active in
\* particular) only in the step that reconciles a successful New-Audit
\* response carrying that id: never in an attach, a remove, a clear, a send,
\* a Follow-up response or a failure.
C20_SessionCreatedByAudit ==
    [][(sessionId' # Null /\ sessionId' # sessionId) =>
         /\ Reconciled(last', "audit")
         /\ Succeeded(Val(last'.out))
         /\ Val(last'.out).body.session_id = sessionId']_vars

\* The Session went from Unset to Active in the step that reconciled a
\* successful New-Audit response carrying the id.
C20_Witness ==
    /\ Reconciled(last, "audit")
    /\ Succeeded(Val(last.out))
    /\ last.pre.sessionId = Null
    /\ sessionId # Null
    /\ sessionId = Val(last.out).body.session_id

\* C21: the Session goes from Active to Unset only in an accepted attach, in
\* a clear, or in the step that reconciles a Follow-up answered with status
\* 404; no other step resets it.
C21_SessionResetOnlyBy ==
    [][(sessionId # Null /\ sessionId' = Null) =>
         \/ last'.op = "attach" /\ last'.result \in {"csv", "pdf"}
         \/ last'.op = "clear"
         \/ /\ Reconciled(last', "chat")
            /\ ~Val(last'.out).transport
            /\ Val(last'.out).status = 404]_vars

\* A Follow-up answered 404 with a JSON body reset an Active Session.
C21_Witness ==
    /\ Reconciled(last, "chat")
    /\ ~Val(last.out).transport
    /\ Val(last.out).status = 404
    /\ Val(last.out).parses
    /\ last.pre.sessionId # Null
    /\ sessionId = Null

\* C22: in every reachable state the ids of the log entries are strictly
\* increasing in log order (hence pairwise distinct) and the id counter is
\* greater than every id in the log.
C22_IdsIncrease ==
    /\ \A i, j \in 1..Len(messages) : i < j => messages[i].id < messages[j].id
    /\ \A i \in 1..Len(messages) : messages[i].id < nextMessageId

\* The log was cleared while a request was outstanding and the outcome of
\* that request was logged afterwards: the log starts with an entry that is
\* not a user message, numbered from 0 again.
C22_Witness ==
    /\ last.op = "response"
    /\ messages # <<>>
    /\ messages[1].sender \in {"ai", "system"}
    /\ messages[1].id = 0
    /\ nextMessageId = Len(messages)

\* C23: every step other than a clear leaves the entries already in the log
\* unchanged and in place: the log before the step is a prefix of the log
\* after it.
C23_AppendOnly ==
    [][last'.op # "clear" =>
         /\ Len(messages') >= Len(messages)
         /\ \A i \in 1..Len(messages) : messages'[i] = messages[i]]_vars

\* The delayed send of a quick action appended its user message to a log
\* that already held a question and its answer.
C23_Witness ==
    /\ last.op = "timer"
    /\ last.result = "sent"
    /\ Len(messages) >= 3
    /\ messages[1].sender = "user"
    /\ messages[2].sender = "ai"
    /\ messages[Len(messages)].sender = "user"

\* C24: the delayed send of a quick action sends the prompt of the quick
\* action: it appends one user message whose text is the prompt and issues a
\* request carrying the prompt, whatever the input field held when the quick
\* action was clicked.
C24_QuickActionSendsPrompt ==
    [][last'.op = "timer" =>
         /\ last'.result = "sent"
         /\ Val(last'.req).message \in Prompts
         /\ OnlyAppends
         /\ Len(Added) = 1
         /\ Added[1].sender = "user"
         /\ Added[1].text \in Prompts]_vars

\* C25: in every reachable state an occupied upload slot implies that the
\* Session is Unset, and every New-Audit request is issued while the Session
\* is Unset.
C25_StagedImpliesUnset ==
    [][/\ (csvFile' # Null \/ pdfFile' # Null) => sessionId' = Null
       /\ (Sent(last') /\ Val(last'.req).kind = "audit") => sessionId = Null]_vars

\* sendMessage appends the user message of a request when it issues it and
\* only a clear removes entries: a request whose user message is not in the
\* log was issued before the last clear.
IssuedBeforeClear(r) ==
    ~\E i \in 1..Len(messages) :
        messages[i].sender = "user" /\ messages[i].text = r.message

\* C26: reconciling the outcome of a request that was outstanding when the
\* log was cleared does not undo the clear: it appends nothing to the log
\* and leaves the Session as it is.
C26_ClearNotUndone ==
    [][(last'.op = "response" /\ IssuedBeforeClear(Val(last'.req))) =>
         /\ messages' = messages
         /\ sessionId' = sessionId]_vars

\* C27: reconciling a failed New-Audit request (non-success status or
\* transport failure) leaves both upload slots and the Session as they were,
\* and a send from the page that finds files staged (the next one, the input
\* being empty and disabled until the outcome is reconciled) carries them in
\* a New-Audit request.
C27_AuditFailureKeepsFiles ==
    [][/\ (Reconciled(last', "audit") /\ Failed(Val(last'.out))) =>
            /\ csvFile' = csvFile
            /\ pdfFile' = pdfFile
            /\ sessionId' = sessionId
       /\ (last'.op = "send" /\ last'.result = "sent"
             /\ (csvFile # Null \/ pdfFile # Null)) =>
            /\ Val(last'.req).kind = "audit"
            /\ Val(last'.req).csv_file = csvFile
            /\ Val(last'.req).pdf_file = pdfFile]_vars

\* A New-Audit request that carried a CSV failed, and the next send carried
\* the same CSV in a New-Audit request.
C27_Witness ==
    /\ last.op = "send"
    /\ last.result = "sent"
    /\ Val(last.req).kind = "audit"
    /\ Val(last.req).csv_file # Null
    /\ Len(messages) = 5
    /\ messages[1].text = UploadedPrefix \o Val(Val(last.req).csv_file).name
    /\ messages[3].sender = "user"
    /\ StartsWith(messages[4].text, ErrorMarker)
    /\ Len(inflight) = 1

\* C28: reconciling a Follow-up that failed with a status other than 404 or
\* with a transport failure leaves the Session as it was (Active with the
\* same id), and a send from the page that finds the Session Active and no
\* file staged (the next one, the input being empty and disabled until the
\* outcome is reconciled) is again a Follow-up to that session.
C28_FollowUpFailureKeepsSession ==
    [][/\ (Reconciled(last', "chat") /\ Failed(Val(last'.out))
             /\ (Val(last'.out).transport \/ Val(last'.out).status # 404)) =>
            sessionId' = sessionId
       /\ (sessionId # Null /\ csvFile = Null /\ pdfFile = Null
             /\ last'.op = "send" /\ last'.result = "sent") =>
            /\ Val(last'.req).kind = "chat"
            /\ Val(last'.req).session = sessionId]_vars

\* A Follow-up was sent to the session right after a Follow-up to it had
\* failed with status 500.
C28_Witness ==
    /\ last.op = "send"
    /\ last.result = "sent"
    /\ Val(last.req).kind = "chat"
    /\ Val(last.req).session = sessionId
    /\ Len(messages) >= 2
    /\ messages[Len(messages) - 1].text = ErrorMarker \o DetailText
    /\ Len(inflight) = 1

C30_BlankSendNoOp ==
    [][(last'.op \in {"send", "timer"} /\ Trim(MessageRead(last')) = "") =>
         /\ last'.result = "ignored"
         /\ messages' = messages
         /\ nextMessageId' = nextMessageId
         /\ inflight' = inflight
         /\ issued' = issued
         /\ isLoading' = isLoading
         /\ sessionId' = sessionId
         /\ csvFile' = csvFile
         /\ pdfFile' = pdfFile]_vars

\* A send of a whitespace-only input was ignored while a CSV was staged.
C30_Witness ==
    /\ last.op = "send"
    /\ last.result = "ignored"
    /\ inputValue = "  "
    /\ csvFile # Null
    /\ inflight = <<>>
    /\ ~isLoading

=============================================================================
